---- MODULE Spec2Model ----
(***************************************************************************)
(* Model of jupytermcxblock/xblock.py: the JupyterMCXBlock configuration   *)
(* fields, the properties derived from them (launch_url, launch_target,    *)
(* lti_version, hub_url_base_path, prefixed_custom_parameters) and the     *)
(* lti_launch_handler request handler.                                     *)
(*                                                                         *)
(* Text values are sequences of one-character strings, so that            *)
(* os.path.basename, str.strip, urllib.parse.urlparse and                  *)
(* urllib.parse.urlencode are modelled by what they do to the characters.  *)
(*                                                                         *)
(* The `values` list of urlbasepath (xblock.py lines 40-48) is read as the *)
(* seven entries it spells out; the separating commas missing after the    *)
(* fourth, fifth and sixth entries are not modelled.                       *)
(***************************************************************************)
EXTENDS Integers, Sequences, FiniteSets, TLC

VARIABLES
    display_name,                     \* field, xblock.py:26
    urlbasepath,                      \* field, xblock.py:37
    nb_git_repo,                      \* field, xblock.py:56
    nb_git_branch,                    \* field, xblock.py:62
    nb_git_file,                      \* field, xblock.py:67
    lti_id,                           \* field, xblock.py:75
    hub_url,                          \* field, xblock.py:85
    super_launch_target,              \* inherited stored field read by super().launch_target
    super_lti_version,                \* inherited stored field the base class would report
    super_prefixed_custom_parameters, \* what super().prefixed_custom_parameters returns
    pc,                               \* position of lti_launch_handler
    request,                          \* host-platform context of the request being served
    processors,                       \* self.get_parameter_processors()
    next_processor,                   \* index of the loop at xblock.py:227
    raised,                           \* indices of the processors that raised
    lti_consumer,                     \* the delegate launch-request builder
    calls,                            \* calls made on the builder, in order
    lti_parameters,                   \* result of generate_launch_request
    events,                           \* tracking events emitted, in order
    logged,                           \* records written to the module logger
    response                          \* what the handler returned or raised

fields == <<display_name, urlbasepath, nb_git_repo, nb_git_branch, nb_git_file,
            lti_id, hub_url>>

inherited == <<super_launch_target, super_lti_version, super_prefixed_custom_parameters>>

handler == <<pc, request, processors, next_processor, raised, lti_consumer, calls,
             lti_parameters, events, logged, response>>

vars == <<fields, inherited, handler>>

----------------------------------------------------------------------------
(* Bounds *)

MaxRepoLen == 2
MaxBranchLen == 1
MaxFileLen == 1
MaxHubPathLen == 1
MaxProcessors == 2

----------------------------------------------------------------------------
(* Text helpers *)

Max(S) == CHOOSE x \in S : \A y \in S : y <= x
Min(S) == CHOOSE x \in S : \A y \in S : x <= y

Strings(chars, n) == UNION {[1..k -> chars] : k \in 0..n}

\* str.join over a sequence of texts
RECURSIVE Join(_, _)
Join(sep, parts) ==
    IF parts = <<>> THEN <<>>
    ELSE IF Len(parts) = 1 THEN parts[1]
    ELSE parts[1] \o sep \o Join(sep, Tail(parts))

\* str.find: index of the first character of s that is in cs, 0 if none
FindAny(s, cs) ==
    LET I == {i \in 1..Len(s) : s[i] \in cs}
    IN  IF I = {} THEN 0 ELSE Min(I)

\* s[:i) when i > 0, all of s otherwise
Before(s, i) == IF i = 0 THEN s ELSE SubSeq(s, 1, i - 1)

\* os.path.basename (posixpath): i = p.rfind('/') + 1; return p[i:]
basename(p) ==
    LET I == {i \in 1..Len(p) : p[i] = "/"}
        i == IF I = {} THEN 0 ELSE Max(I)
    IN  SubSeq(p, i + 1, Len(p))

\* str.strip(chars)
strip(s, cs) ==
    LET K == {i \in 1..Len(s) : s[i] \notin cs}
    IN  IF K = {} THEN <<>> ELSE SubSeq(s, Min(K), Max(K))

Letters == {"a", "b", "c", "d", "e", "f", "g", "h", "i", "j", "k", "l", "m",
            "n", "o", "p", "q", "r", "s", "t", "u", "v", "w", "x", "y", "z", "D"}
Digits == {"0", "1", "2", "3", "4", "5", "6", "7", "8", "9"}

\* urllib.parse.urlparse(url).path: the scheme is split off at the first ':'
\* when what precedes it is a letter followed by scheme characters, the
\* netloc after a leading '//' runs to the first of '/', '?', '#', then the
\* fragment and the query are cut off.
urlparse_path(url) ==
    LET colon == FindAny(url, {":"})
        hasScheme == /\ colon > 1
                     /\ url[1] \in Letters
                     /\ \A i \in 1..(colon - 1) : url[i] \in Letters \cup Digits \cup {"+", "-", "."}
        rest1 == IF hasScheme THEN SubSeq(url, colon + 1, Len(url)) ELSE url
        hasNetloc == Len(rest1) >= 2 /\ rest1[1] = "/" /\ rest1[2] = "/"
        after == SubSeq(rest1, 3, Len(rest1))
        delim == FindAny(after, {"/", "?", "#"})
        rest2 == IF hasNetloc
                 THEN (IF delim = 0 THEN <<>> ELSE SubSeq(after, delim, Len(after)))
                 ELSE rest1
        rest3 == Before(rest2, FindAny(rest2, {"#"}))
    IN  Before(rest3, FindAny(rest3, {"?"}))

\* Characters urllib.parse.quote never escapes
Unreserved == Letters \cup Digits \cup {"_", ".", "-", "~"}

\* '%XX' escapes of the reserved characters the model uses
PercentEscape ==
    [c \in {"/", ":", "&", "=", "?", "%", "+", "#"} |->
        CASE c = "/" -> <<"%", "2", "F">>
          [] c = ":" -> <<"%", "3", "A">>
          [] c = "&" -> <<"%", "2", "6">>
          [] c = "=" -> <<"%", "3", "D">>
          [] c = "?" -> <<"%", "3", "F">>
          [] c = "%" -> <<"%", "2", "5">>
          [] c = "+" -> <<"%", "2", "B">>
          [] c = "#" -> <<"%", "2", "3">>]

\* urllib.parse.quote_plus with safe='': unreserved characters are kept,
\* ' ' becomes '+', every other character becomes its '%XX' escape
RECURSIVE quote_plus(_)
quote_plus(s) ==
    IF s = <<>> THEN <<>>
    ELSE LET c == Head(s)
             q == IF c \in Unreserved THEN <<c>>
                  ELSE IF c = " " THEN <<"+">>
                  ELSE PercentEscape[c]
         IN  q \o quote_plus(Tail(s))

\* the items joined as key=value without quoting
urlencode_unquoted(items) ==
    Join(<<"&">>, [i \in 1..Len(items) |-> items[i][1] \o <<"=">> \o items[i][2]])

\* urllib.parse.urlencode over the items of a dict, in insertion order
urlencode(items) ==
    Join(<<"&">>, [i \in 1..Len(items) |->
                      quote_plus(items[i][1]) \o <<"=">> \o quote_plus(items[i][2])])

----------------------------------------------------------------------------
(* Values of the fields *)

tree == <<"t", "r", "e", "e">>
lab_tree == <<"l", "a", "b", "/", "t", "r", "e", "e">>
rstudio == <<"r", "s", "t", "u", "d", "i", "o">>
terminals_1 == <<"t", "e", "r", "m", "i", "n", "a", "l", "s", "/", "1">>
Desktop == <<"D", "e", "s", "k", "t", "o", "p">>
openrefine == <<"o", "p", "e", "n", "r", "e", "f", "i", "n", "e">>
code_server == <<"c", "o", "d", "e", "-", "s", "e", "r", "v", "e", "r">>

\* the `values` of urlbasepath
DeclaredInterfaces == {tree, lab_tree, rstudio, terminals_1, Desktop, openrefine, code_server}

\* a String field also holds a value outside its declared options
InterfaceValues == DeclaredInterfaces \cup {<<"x">>}

default_nb_git_repo ==
    <<"h", "t", "t", "p", "s", ":", "/", "/", "g", "i", "t", "h", "u", "b", ".", "c", "o", "m",
      "/", "c", "a", "l", "c", "u", "l", "q", "u", "e", "b", "e", "c",
      "/", "j", "u", "p", "y", "t", "e", "r", "m", "c", "-", "x", "b", "l", "o", "c", "k",
      ".", "g", "i", "t">>
default_nb_git_branch == <<"m", "a", "i", "n">>
default_nb_git_file ==
    <<"s", "t", "a", "t", "i", "c", "/", "n", "o", "t", "e", "b", "o", "o", "k", "s",
      "/", "h", "e", "l", "l", "o", ".", "i", "p", "y", "n", "b">>
default_hub_url == <<"h", "t", "t", "p", "s", ":", "/", "/", "h">>

RepoValues == Strings({"r", "/"}, MaxRepoLen) \cup {default_nb_git_repo}
BranchValues == Strings({"&"}, MaxBranchLen) \cup {default_nb_git_branch}
FileValues == Strings({" "}, MaxFileLen) \cup {default_nb_git_file}
HubUrlValues ==
    {default_hub_url}
    \cup {default_hub_url \o <<"/">> \o p : p \in Strings({"/", "j"}, MaxHubPathLen)}
DisplayNameValues == {"JupyterHub", "Notebook"}
LtiIdValues == {"jupyterhub", "passport"}
LaunchTargetValues == {"iframe", "modal"}
LtiVersionValues == {"lti_1p1", "lti_1p3"}

\* custom-parameter maps the base class can return: key -> text
InheritedCustomParameters ==
    { [k \in {"custom_a"} |-> <<"v">>],
      [k \in {"custom_a", "next"} |-> IF k = "next" THEN <<"/", "o">> ELSE <<"v">>] }

----------------------------------------------------------------------------
(* Overridden base attributes, xblock.py:108-157 *)

hub_lti_launch == <<"/", "h", "u", "b", "/", "l", "t", "i", "/", "l", "a", "u", "n", "c", "h">>

launch_url == hub_url \o hub_lti_launch

\* RStudio alone forcing a new window, as the docstring of launch_target has it
NewWindowInterfaces_rstudio_only == {rstudio}

NewWindowInterfaces == {rstudio, openrefine, Desktop, code_server}

launch_target ==
    IF urlbasepath \in NewWindowInterfaces THEN "new_window" ELSE super_launch_target

\* the version the base class would report
lti_version_inherited == super_lti_version

lti_version == "lti_1p1"

hub_url_base_path == strip(urlparse_path(hub_url), {"/"})

key_repo == <<"r", "e", "p", "o">>
key_branch == <<"b", "r", "a", "n", "c", "h">>
key_urlpath == <<"u", "r", "l", "p", "a", "t", "h">>

\* the list without the terminal interface
NoDocumentInterfaces_without_terminal == {rstudio, openrefine, Desktop, code_server}

NoDocumentInterfaces == {terminals_1, rstudio, openrefine, Desktop, code_server}

\* the dict built at xblock.py:138-146, as its items in insertion order
next_query_params ==
    <<  <<key_repo, nb_git_repo>>,
        <<key_branch, nb_git_branch>>,
        <<key_urlpath,
          IF urlbasepath \in NoDocumentInterfaces
          THEN urlbasepath
          ELSE urlbasepath \o <<"/">> \o basename(nb_git_repo) \o <<"/">> \o nb_git_file>>  >>

git_pull_path == <<"/", "h", "u", "b", "/", "u", "s", "e", "r", "-", "r", "e", "d", "i", "r",
                   "e", "c", "t", "/", "g", "i", "t", "-", "p", "u", "l", "l">>

next_url == hub_url_base_path \o git_pull_path \o <<"?">> \o urlencode(next_query_params)

prefixed_custom_parameters ==
    [k \in DOMAIN super_prefixed_custom_parameters \cup {"next"} |->
        IF k = "next" THEN next_url ELSE super_prefixed_custom_parameters[k]]

----------------------------------------------------------------------------
(* Author edits of the editable fields, xblock.py:96-106 *)

EditDisplayName ==
    /\ pc = "idle"
    /\ \E v \in DisplayNameValues : display_name' = v
    /\ UNCHANGED <<urlbasepath, nb_git_repo, nb_git_branch, nb_git_file, lti_id, hub_url>>
    /\ UNCHANGED <<inherited, handler>>

EditUrlbasepath ==
    /\ pc = "idle"
    /\ \E v \in InterfaceValues : urlbasepath' = v
    /\ UNCHANGED <<display_name, nb_git_repo, nb_git_branch, nb_git_file, lti_id, hub_url>>
    /\ UNCHANGED <<inherited, handler>>

EditLaunchTarget ==
    /\ pc = "idle"
    /\ \E v \in LaunchTargetValues : super_launch_target' = v
    /\ UNCHANGED <<fields, super_lti_version, super_prefixed_custom_parameters, handler>>

EditHubUrl(values) ==
    /\ pc = "idle"
    /\ \E v \in values : hub_url' = v
    /\ UNCHANGED <<display_name, urlbasepath, nb_git_repo, nb_git_branch, nb_git_file, lti_id>>
    /\ UNCHANGED <<inherited, handler>>

EditLtiId ==
    /\ pc = "idle"
    /\ \E v \in LtiIdValues : lti_id' = v
    /\ UNCHANGED <<display_name, urlbasepath, nb_git_repo, nb_git_branch, nb_git_file, hub_url>>
    /\ UNCHANGED <<inherited, handler>>

EditNbGitRepo(values) ==
    /\ pc = "idle"
    /\ \E v \in values : nb_git_repo' = v
    /\ UNCHANGED <<display_name, urlbasepath, nb_git_branch, nb_git_file, lti_id, hub_url>>
    /\ UNCHANGED <<inherited, handler>>

EditNbGitBranch(values) ==
    /\ pc = "idle"
    /\ \E v \in values : nb_git_branch' = v
    /\ UNCHANGED <<display_name, urlbasepath, nb_git_repo, nb_git_file, lti_id, hub_url>>
    /\ UNCHANGED <<inherited, handler>>

EditNbGitFile(values) ==
    /\ pc = "idle"
    /\ \E v \in values : nb_git_file' = v
    /\ UNCHANGED <<display_name, urlbasepath, nb_git_repo, nb_git_branch, lti_id, hub_url>>
    /\ UNCHANGED <<inherited, handler>>

----------------------------------------------------------------------------
(* lti_launch_handler, xblock.py:159-251 *)

LTI_1P1_ROLE_MAP ==
    [r \in {"student", "staff", "instructor"} |->
        CASE r = "student" -> "Student,Learner"
          [] r = "staff" -> "Administrator"
          [] r = "instructor" -> "Instructor"]

\* LTI_1P1_ROLE_MAP.get(role, role): an unknown role forwarded as it is
lti_role_passthrough(role) ==
    IF role \in DOMAIN LTI_1P1_ROLE_MAP THEN LTI_1P1_ROLE_MAP[role] ELSE role

\* LTI_1P1_ROLE_MAP.get(role, 'Student,Learner'), xblock.py:186
lti_role(role) ==
    IF role \in DOMAIN LTI_1P1_ROLE_MAP THEN LTI_1P1_ROLE_MAP[role] ELSE "Student,Learner"

\* where the try block of xblock.py:180-188 can raise LtiError
ExtractionSteps == {"extract_real_user_data", "get_lti_1p1_user_id", "role", "lis_result_sourcedid"}

RoleValues == {"student", "staff", "instructor", "", "guest"}
ErrorMessages == {"Could not get user data for current request", "Could not get user id"}

Requests ==
    [failure : {"none"}, error_msg : {""}, role : RoleValues,
     user_username : {"", "alice"}, user_language : {"", "fr"}, has_score : BOOLEAN]
    \cup
    [failure : ExtractionSteps, error_msg : ErrorMessages, role : {"student"},
     user_username : {""}, user_language : {""}, has_score : {FALSE}]

NoRequest ==
    [failure |-> "none", error_msg |-> "", role |-> "", user_username |-> "",
     user_language |-> "", has_score |-> FALSE]

\* what a registered processor does when the loop of xblock.py:227-235 reaches it
ProcessorKinds == {"ok", "returns_none", "raises_reading_defaults", "raises_when_called"}

ProcessorLists == Strings(ProcessorKinds, MaxProcessors)

\* getattr(processor, 'lti_xblock_default_params', {}) of the processor at index i
default_params(i) ==
    IF processors[i] \in {"ok", "raises_when_called"} THEN {<<i, "default">>} ELSE {}

\* processor(self) or {} of the processor at index i
returned_params(i) ==
    IF processors[i] = "ok" THEN {<<i, "returned">>} ELSE {}

NoResponse == [kind |-> "none"]

\* self._get_lti_consumer(): a builder carrying the launch URL and nothing else
NewConsumer ==
    [lti_launch_url |-> launch_url, user_data |-> <<>>, context_data |-> <<>>,
     outcome_service_url |-> <<>>, locale |-> <<>>, custom_parameters |-> <<>>,
     extra_claims |-> {}]

IdleConsumer == [NewConsumer EXCEPT !.lti_launch_url = <<>>]

\* the handler is entered: xblock.py:160-175
Launch ==
    /\ pc = "idle"
    /\ \E req \in Requests, procs \in ProcessorLists :
          /\ request' = req
          /\ processors' = procs
    /\ lti_consumer' = NewConsumer
    /\ pc' = "extract"
    /\ next_processor' = 1
    /\ raised' = {}
    /\ calls' = <<>>
    /\ lti_parameters' = <<>>
    /\ events' = <<>>
    /\ logged' = <<>>
    /\ response' = NoResponse
    /\ UNCHANGED <<fields, inherited>>

\* set_user_data called inside the try block, before the step that raises
ExtractFails_after_set_user_data ==
    /\ pc = "extract"
    /\ request.failure # "none"
    /\ response' = [kind |-> "returned", status |-> 400, content_type |-> "text/html",
                    template |-> "/templates/html/lti_launch_error.html",
                    context |-> [error_msg |-> request.error_msg]]
    /\ calls' = Append(calls, "set_user_data")
    /\ pc' = "done"
    /\ UNCHANGED <<fields, inherited, request, processors, next_processor, raised,
                   lti_consumer, lti_parameters, events, logged>>

\* identity extraction raises LtiError: xblock.py:180-194
ExtractFails ==
    /\ pc = "extract"
    /\ request.failure # "none"
    /\ response' = [kind |-> "returned", status |-> 400, content_type |-> "text/html",
                    template |-> "/templates/html/lti_launch_error.html",
                    context |-> [error_msg |-> request.error_msg]]
    /\ pc' = "done"
    /\ UNCHANGED <<fields, inherited, request, processors, next_processor, raised,
                   lti_consumer, calls, lti_parameters, events, logged>>

\* identity extraction succeeds and the builder is populated: xblock.py:180-225
Populate ==
    /\ pc = "extract"
    /\ request.failure = "none"
    /\ lti_consumer' =
          [lti_consumer EXCEPT
              !.user_data = <<[role |-> lti_role(request.role),
                               person_sourcedid |-> request.user_username]>>,
              !.context_data = <<"context_id">>,
              !.outcome_service_url =
                  IF request.has_score THEN <<"outcome_service_url">> ELSE <<>>,
              !.locale =
                  IF request.user_language # "" THEN <<request.user_language>> ELSE <<>>,
              !.custom_parameters = <<prefixed_custom_parameters>>]
    /\ calls' = calls
                \o <<"set_user_data", "set_context_data">>
                \o (IF request.has_score THEN <<"set_outcome_service_url">> ELSE <<>>)
                \o (IF request.user_language # "" THEN <<"set_launch_presentation_locale">> ELSE <<>>)
                \o <<"set_custom_parameters">>
    /\ logged' = Append(logged, [msg |-> "Fetching git repo=%s, branch=%s, urlpath=%s", arg |-> 0])
    /\ pc' = "processors"
    /\ UNCHANGED <<fields, inherited, request, processors, next_processor, raised,
                   lti_parameters, events, response>>

\* one iteration of the loop whose processor does not raise: xblock.py:227-231
ApplyProcessor ==
    /\ pc = "processors"
    /\ next_processor <= Len(processors)
    /\ processors[next_processor] \in {"ok", "returns_none"}
    /\ lti_consumer' =
          [lti_consumer EXCEPT
              !.extra_claims = @ \cup default_params(next_processor)
                                 \cup returned_params(next_processor)]
    /\ calls' = calls \o <<"processor", "set_extra_claims", "set_extra_claims">>
    /\ next_processor' = next_processor + 1
    /\ UNCHANGED <<fields, inherited, pc, request, processors, raised, lti_parameters,
                   events, logged, response>>

\* one iteration whose processor raises: the except clause names `log`, which
\* the module never binds (it binds `logger`, xblock.py:21), so the clause
\* itself raises NameError and the handler is left: xblock.py:227-235
ProcessorRaises ==
    /\ pc = "processors"
    /\ next_processor <= Len(processors)
    /\ processors[next_processor] \in {"raises_reading_defaults", "raises_when_called"}
    /\ lti_consumer' =
          [lti_consumer EXCEPT !.extra_claims = @ \cup default_params(next_processor)]
    /\ calls' = calls \o (IF processors[next_processor] = "raises_when_called"
                          THEN <<"set_extra_claims", "processor">>
                          ELSE <<"processor">>)
    /\ raised' = raised \cup {next_processor}
    /\ response' = [kind |-> "raised", error |-> "NameError"]
    /\ pc' = "done"
    /\ UNCHANGED <<fields, inherited, request, processors, next_processor,
                   lti_parameters, events, logged>>

\* lti_consumer.generate_launch_request(self.resource_link_id): xblock.py:237
GenerateLaunchRequest ==
    /\ pc = "processors"
    /\ next_processor > Len(processors)
    /\ lti_parameters' = <<[lti_version |-> "LTI-1p0",
                            roles |-> lti_consumer.user_data[1].role,
                            resource_link_id |-> "resource_link_id",
                            custom |-> lti_consumer.custom_parameters[1],
                            extra_claims |-> lti_consumer.extra_claims]>>
    /\ calls' = Append(calls, "generate_launch_request")
    /\ pc' = "track"
    /\ UNCHANGED <<fields, inherited, request, processors, next_processor, raised,
                   lti_consumer, events, logged, response>>

\* the event built from the host role instead of the generated parameters
TrackEvent_host_role ==
    /\ pc = "track"
    /\ events' = Append(events,
                        [name |-> "xblock.launch_request",
                         lti_version |-> lti_version,
                         user_roles |-> request.role,
                         launch_url |-> lti_consumer.lti_launch_url])
    /\ pc' = "render"
    /\ UNCHANGED <<fields, inherited, request, processors, next_processor, raised,
                   lti_consumer, calls, lti_parameters, logged, response>>

\* track_event('xblock.launch_request', event): xblock.py:239-245
TrackEvent ==
    /\ pc = "track"
    /\ events' = Append(events,
                        [name |-> "xblock.launch_request",
                         lti_version |-> lti_parameters[1].lti_version,
                         user_roles |-> lti_parameters[1].roles,
                         launch_url |-> lti_consumer.lti_launch_url])
    /\ pc' = "render"
    /\ UNCHANGED <<fields, inherited, request, processors, next_processor, raised,
                   lti_consumer, calls, lti_parameters, logged, response>>

\* the launch form is rendered and returned: xblock.py:247-251
Render ==
    /\ pc = "render"
    /\ response' = [kind |-> "returned", status |-> 200, content_type |-> "text/html",
                    template |-> "/templates/html/lti_launch.html",
                    context |-> [lti_parameters |-> lti_parameters[1]]]
    /\ pc' = "done"
    /\ UNCHANGED <<fields, inherited, request, processors, next_processor, raised,
                   lti_consumer, calls, lti_parameters, events, logged>>

----------------------------------------------------------------------------
(* Specifications *)

\* no request is being served
HandlerIdle ==
    /\ pc = "idle"
    /\ request = NoRequest
    /\ processors = <<>>
    /\ next_processor = 1
    /\ raised = {}
    /\ lti_consumer = IdleConsumer
    /\ calls = <<>>
    /\ lti_parameters = <<>>
    /\ events = <<>>
    /\ logged = <<>>
    /\ response = NoResponse

\* a block as constructed, with the interface the author selected
Init ==
    /\ display_name = "JupyterHub"
    /\ urlbasepath \in {lab_tree, rstudio, terminals_1}
    /\ nb_git_repo = default_nb_git_repo
    /\ nb_git_branch = default_nb_git_branch
    /\ nb_git_file = default_nb_git_file
    /\ lti_id = "jupyterhub"
    /\ hub_url \in {default_hub_url, default_hub_url \o <<"/", "j">>}
    /\ super_launch_target = "iframe"
    /\ super_lti_version = "lti_1p1"
    /\ super_prefixed_custom_parameters \in InheritedCustomParameters
    /\ HandlerIdle

\* the host takes the response (or the error) and the invocation is over;
\* nothing of it is kept by the block: xblock.py:194, 235, 251
Return ==
    /\ pc = "done"
    /\ pc' = "idle"
    /\ request' = NoRequest
    /\ processors' = <<>>
    /\ next_processor' = 1
    /\ raised' = {}
    /\ lti_consumer' = IdleConsumer
    /\ calls' = <<>>
    /\ lti_parameters' = <<>>
    /\ events' = <<>>
    /\ logged' = <<>>
    /\ response' = NoResponse
    /\ UNCHANGED <<fields, inherited>>

Next ==
    \/ Launch
    \/ ExtractFails
    \/ Populate
    \/ ApplyProcessor
    \/ ProcessorRaises
    \/ GenerateLaunchRequest
    \/ TrackEvent
    \/ Render
    \/ Return

Spec == Init /\ [][Next]_vars

\* a block as constructed, in the authoring view: the fields hold their defaults
InitConfig ==
    /\ display_name = "JupyterHub"
    /\ urlbasepath = lab_tree
    /\ nb_git_repo = default_nb_git_repo
    /\ nb_git_branch = default_nb_git_branch
    /\ nb_git_file = default_nb_git_file
    /\ lti_id = "jupyterhub"
    /\ hub_url = default_hub_url
    /\ super_launch_target = "iframe"
    /\ super_lti_version \in LtiVersionValues
    /\ super_prefixed_custom_parameters \in InheritedCustomParameters
    /\ HandlerIdle

\* every editable field is edited; the texts are a default or one other value
NextConfig ==
    \/ EditDisplayName
    \/ EditUrlbasepath
    \/ EditLaunchTarget
    \/ EditHubUrl({default_hub_url, default_hub_url \o <<"/", "j">>})
    \/ EditLtiId
    \/ EditNbGitRepo({default_nb_git_repo, <<"/", "r">>})
    \/ EditNbGitBranch({default_nb_git_branch, <<"&">>})
    \/ EditNbGitFile({default_nb_git_file, <<" ">>})

SpecConfig == InitConfig /\ [][NextConfig]_vars

\* a block as constructed, whose author then edits what the `next` value is made of
InitParams ==
    /\ InitConfig
    /\ super_lti_version = "lti_1p1"

NextParams ==
    \/ EditUrlbasepath
    \/ EditHubUrl(HubUrlValues)
    \/ EditNbGitRepo(RepoValues)
    \/ EditNbGitBranch(BranchValues)
    \/ EditNbGitFile(FileValues)

SpecParams == InitParams /\ [][NextParams]_vars

----------------------------------------------------------------------------
(* Reading a query string back, as the hub does with the `next` value *)

RECURSIVE Split(_, _)
Split(s, sep) ==
    LET i == FindAny(s, {sep})
    IN  IF i = 0 THEN <<s>>
        ELSE <<SubSeq(s, 1, i - 1)>> \o Split(SubSeq(s, i + 1, Len(s)), sep)

RECURSIVE unquote_plus(_)
unquote_plus(s) ==
    IF s = <<>> THEN <<>>
    ELSE IF Head(s) = "+" THEN <<" ">> \o unquote_plus(Tail(s))
    ELSE IF Head(s) = "%" /\ Len(s) >= 3
              /\ \E c \in DOMAIN PercentEscape : PercentEscape[c] = SubSeq(s, 1, 3)
         THEN <<CHOOSE c \in DOMAIN PercentEscape : PercentEscape[c] = SubSeq(s, 1, 3)>>
              \o unquote_plus(SubSeq(s, 4, Len(s)))
    ELSE <<Head(s)>> \o unquote_plus(Tail(s))

\* the (key, value) items of a query string, blank values kept
QueryItems(q) ==
    LET parts == Split(q, "&")
    IN  [i \in 1..Len(parts) |->
            LET e == FindAny(parts[i], {"="})
            IN  <<unquote_plus(Before(parts[i], e)),
                  unquote_plus(IF e = 0 THEN <<>> ELSE SubSeq(parts[i], e + 1, Len(parts[i])))>>]

\* the `next` value returned by prefixed_custom_parameters, cut at its first '?'
NextValue == prefixed_custom_parameters["next"]
NextPath == Before(NextValue, FindAny(NextValue, {"?"}))
NextQuery ==
    LET q == FindAny(NextValue, {"?"})
    IN  IF q = 0 THEN <<>> ELSE SubSeq(NextValue, q + 1, Len(NextValue))

\* the value the query carries under a key; <<>> when the key is absent
QueryValue(key) ==
    LET items == QueryItems(NextQuery)
        I == {i \in 1..Len(items) : items[i][1] = key}
    IN  IF I = {} THEN <<>> ELSE items[Min(I)][2]

\* b is what follows the last '/' of p, or all of p when p has no '/'
IsBasenameOf(b, p) ==
    \E k \in 0..Len(p) :
        /\ b = SubSeq(p, k + 1, Len(p))
        /\ \A i \in 1..Len(b) : b[i] # "/"
        /\ (k = 0 \/ p[k] = "/")

----------------------------------------------------------------------------
(* Claims about prefixed_custom_parameters, checked under SpecParams *)

\* C3: in prefixed_custom_parameters the urlpath query value is exactly the
\* interface value when the interface is the terminal or one of the four
\* new-window interfaces, and <interface>/<basename of the repository
\* URL>/<file path> for every other interface value.
C3_UrlpathShape ==
    LET urlpath == QueryValue(<<"u", "r", "l", "p", "a", "t", "h">>)
    IN  IF urlbasepath \in {terminals_1, rstudio, openrefine, Desktop, code_server}
        THEN urlpath = urlbasepath
        ELSE \E b \in {SubSeq(nb_git_repo, k + 1, Len(nb_git_repo)) : k \in 0..Len(nb_git_repo)} :
                /\ IsBasenameOf(b, nb_git_repo)
                /\ urlpath = urlbasepath \o <<"/">> \o b \o <<"/">> \o nb_git_file

C3_Witness ==
    /\ urlbasepath = terminals_1
    /\ nb_git_repo = <<"/", "r">>
    /\ nb_git_file = <<" ">>
    /\ QueryValue(<<"u", "r", "l", "p", "a", "t", "h">>) = terminals_1

\* the three items the query string is to carry, in order
ExpectedQueryItems ==
    <<  <<  <<"r", "e", "p", "o">>, nb_git_repo  >>,
        <<  <<"b", "r", "a", "n", "c", "h">>, nb_git_branch  >>,
        <<  <<"u", "r", "l", "p", "a", "t", "h">>, next_query_params[3][2]  >>  >>

FixedGitPullPath ==
    <<"/", "h", "u", "b", "/", "u", "s", "e", "r", "-", "r", "e", "d", "i", "r", "e", "c", "t",
      "/", "g", "i", "t", "-", "p", "u", "l", "l">>

\* the returned map is the inherited map with key `next` set
OnlyNextOverridden ==
    /\ DOMAIN prefixed_custom_parameters = DOMAIN super_prefixed_custom_parameters \cup {"next"}
    /\ \A k \in DOMAIN super_prefixed_custom_parameters \ {"next"} :
          prefixed_custom_parameters[k] = super_prefixed_custom_parameters[k]

\* C4 (as stated): for every configuration the returned map equals the
\* inherited map except that `next` is the fixed path
\* /hub/user-redirect/git-pull followed by '?' and a URL-encoded query string
\* with exactly the keys repo, branch, urlpath in that order carrying the
\* configured repository, branch and composed target path.
C4_Original ==
    /\ OnlyNextOverridden
    /\ FindAny(NextValue, {"?"}) > 0
    /\ NextPath = FixedGitPullPath
    /\ QueryItems(NextQuery) = ExpectedQueryItems

\* C4 (amended): as above, except that the fixed path is preceded by the path
\* component of hub_url with its leading and trailing slashes removed (nothing
\* when hub_url has no path component).
C4_Amended ==
    /\ OnlyNextOverridden
    /\ FindAny(NextValue, {"?"}) > 0
    /\ NextPath = strip(urlparse_path(hub_url), {"/"}) \o FixedGitPullPath
    /\ QueryItems(NextQuery) = ExpectedQueryItems

C4_Witness ==
    /\ hub_url = default_hub_url \o <<"/", "j">>
    /\ nb_git_branch = <<"&">>
    /\ nb_git_repo = <<"/", "r">>
    /\ "next" \in DOMAIN super_prefixed_custom_parameters
    /\ NextPath = <<"j">> \o FixedGitPullPath

----------------------------------------------------------------------------
(* Claims about launch_target and lti_version, checked under SpecConfig *)

\* C5: for each of rstudio, openrefine, Desktop and code-server launch_target
\* is "new_window" whatever the inherited launch target is; for tree, lab/tree
\* and terminals/1 it is the inherited launch target.
C5_LaunchTarget ==
    /\ urlbasepath \in {rstudio, openrefine, Desktop, code_server}
          => launch_target = "new_window"
    /\ urlbasepath \in {tree, lab_tree, terminals_1}
          => launch_target = super_launch_target

C5_Witness ==
    /\ urlbasepath = openrefine
    /\ super_launch_target = "modal"
    /\ launch_target = "new_window"

\* C7: after any sequence of author edits lti_version is "lti_1p1", whatever
\* the editable fields and the inherited stored version hold.
C7_LtiVersionFixed == lti_version = "lti_1p1"

C7_Witness ==
    /\ super_lti_version = "lti_1p3"
    /\ urlbasepath = rstudio
    /\ hub_url # default_hub_url
    /\ lti_version = "lti_1p1"

----------------------------------------------------------------------------
(* Claims about lti_launch_handler, checked under Spec *)

ErrorPage(msg) ==
    [kind |-> "returned", status |-> 400, content_type |-> "text/html",
     template |-> "/templates/html/lti_launch_error.html",
     context |-> [error_msg |-> msg]]

IsLaunchForm(r) ==
    /\ r.kind = "returned"
    /\ r.status = 200
    /\ r.content_type = "text/html"
    /\ r.template = "/templates/html/lti_launch.html"

\* C1: when identity extraction raises LtiError the handler returns the
\* HTTP 400 error page rendered with that error's message; when identity
\* extraction succeeds the handler returns the HTTP 200 launch form with the
\* generated launch parameters in its context.
C1_ErrorPageOrLaunchForm ==
    pc = "done" =>
        IF request.failure # "none"
        THEN response = ErrorPage(request.error_msg)
        ELSE /\ IsLaunchForm(response)
             /\ lti_parameters # <<>>
             /\ response.context.lti_parameters = lti_parameters[1]

\* C2: with identity extraction succeeding, whatever processors raise, the
\* handler returns the HTTP 200 launch form, every raising processor is
\* logged and skipped and every later processor is still applied.
C2_RaisingProcessorSkipped ==
    (pc = "done" /\ request.failure = "none") =>
        /\ IsLaunchForm(response)
        /\ next_processor = Len(processors) + 1
        /\ \A i \in raised :
              \E k \in 1..Len(logged) :
                  logged[k] = [msg |-> "Error in XBlock LTI parameter processor \"%s\"", arg |-> i]

\* C6: the role passed to set_user_data is "Student,Learner" for student,
\* "Administrator" for staff, "Instructor" for instructor and
\* "Student,Learner" for any other host role, so it is one of these three.
C6_RoleMapping ==
    lti_consumer.user_data # <<>> =>
        LET forwarded == lti_consumer.user_data[1].role
        IN  /\ forwarded = CASE request.role = "student" -> "Student,Learner"
                             [] request.role = "staff" -> "Administrator"
                             [] request.role = "instructor" -> "Instructor"
                             [] OTHER -> "Student,Learner"
            /\ forwarded \in {"Student,Learner", "Administrator", "Instructor"}

C6_Witness ==
    /\ lti_consumer.user_data # <<>>
    /\ request.role = "guest"
    /\ lti_consumer.user_data[1].role = "Student,Learner"

\* C8: an invocation that returns the launch form has emitted exactly one
\* 'xblock.launch_request' event, emitted after generate_launch_request
\* produced the launch parameters and before the response was rendered, with
\* lti_version and user_roles taken from those parameters; and no step of the
\* handler changes a persisted configuration field.
C8_OneEventNoPersistedChange ==
    /\ [](IsLaunchForm(response) =>
             /\ Len(events) = 1
             /\ events[1].name = "xblock.launch_request"
             /\ events[1].lti_version = response.context.lti_parameters.lti_version
             /\ events[1].user_roles = response.context.lti_parameters.roles)
    /\ [][Len(events') > Len(events) =>
             /\ lti_parameters # <<>>
             /\ lti_parameters' = lti_parameters
             /\ response = NoResponse
             /\ response' = NoResponse]_vars
    /\ [][fields' = fields]_vars

C8_Witness ==
    /\ IsLaunchForm(response)
    /\ Len(events) = 1
    /\ request.role = "staff"
    /\ events[1].user_roles = "Administrator"
    /\ Len(processors) = 2

\* C9: when a registered processor raises, the launch proceeds to
\* generate_launch_request and the extra claims the builder then holds
\* contain nothing contributed by a raising processor.
C9_LaunchProceedsWithoutRaisingProcessor ==
    (pc = "done" /\ raised # {}) =>
        /\ lti_parameters # <<>>
        /\ \A c \in lti_parameters[1].extra_claims : c[1] \notin raised
        /\ \A c \in lti_consumer.extra_claims : c[1] \notin raised

\* C10: when identity extraction raises LtiError the handler has emitted no
\* tracking event and made no call on the builder or to a processor; every
\* such call and emission is preceded by a successful identity extraction.
C10_NothingBeforeIdentity ==
    /\ request.failure # "none" =>
          /\ calls = <<>>
          /\ events = <<>>
          /\ lti_parameters = <<>>
          /\ lti_consumer = NewConsumer
    /\ (calls # <<>> \/ events # <<>> \/ lti_parameters # <<>>) =>
          /\ request.failure = "none"
          /\ pc \notin {"idle", "extract"}

C10_Witness ==
    /\ pc = "done"
    /\ response = ErrorPage("Could not get user id")
    /\ request.failure = "lis_result_sourcedid"
    /\ Len(processors) = 2
    /\ calls = <<>>
    /\ events = <<>>

====
